---- MODULE Spec2Model ----
(***************************************************************************)
(* A model of scripts/mvp_animation.py: the dense population table built   *)
(* by reindex + linear interpolation, the build fraction of a road         *)
(* segment, the partial geometry plotted for it, and the frame loop that   *)
(* drives both, one frame per year.                                        *)
(*                                                                         *)
(* Numbers.  The script computes in IEEE doubles.  Every quotient it forms *)
(* has small integer operands, so the model keeps the exact rational       *)
(* (n over d, in lowest terms, d > 0); the double is that rational         *)
(* correctly rounded, and the comparisons the script makes (frac > 0,      *)
(* frac < 1.0) have the same outcome on both.  NaN is the pair 0 over 0.   *)
(***************************************************************************)
EXTENDS Integers, Sequences, FiniteSets, TLC

VARIABLES
    city_df,        \* the CSV after set_index('year'): year -> population
    city_df_full,   \* the reindexed table: year -> population or NaN
    roads_gdf,      \* the GeoJSON rows, in file order
    current_year,   \* the loop variable of the frame loop
    idx,            \* the row the inner loop is at (1-based)
    plotted,        \* what the inner loop has done for the rows of this frame
    frames,         \* the frames saved so far, in the order they were saved
    raised,         \* the exception that ended the script, or "none"
    pc,             \* the position of the script
    args,           \* the arguments of a direct call of get_build_fraction
    result          \* what that call returned

vars == <<city_df, city_df_full, roads_gdf, current_year, idx, plotted,
          frames, raised, pc, args, result>>

----------------------------------------------------------------------------
(* Bounds of the model and constants of the script.                        *)

FirstYear == 1850
YearSpan == 2
GridMax == 2
MaxVerts == 3
MaxRoads == 2
MaxPop == 2

LastYear == FirstYear + YearSpan

\* years = range(1850, 1951), with the upper end scaled down to LastYear
years == FirstYear .. LastYear

\* The years an input file may name: the loop's range and one year either side.
InputYears == (FirstYear - 1) .. (LastYear + 1)

PopValues == {100 * k : k \in 1 .. MaxPop}

----------------------------------------------------------------------------
(* Exact rationals.                                                        *)

Abs(i) == IF i < 0 THEN -i ELSE i

RECURSIVE GCD(_, _)
GCD(a, b) == IF b = 0 THEN a ELSE GCD(b, a % b)

Rat(n, d) ==
    LET s == IF d < 0 THEN -1 ELSE 1
        g == GCD(Abs(n), Abs(d))
    IN  [n |-> (s * n) \div g, d |-> (s * d) \div g]

RatOf(i) == [n |-> i, d |-> 1]
Zero == RatOf(0)
One == RatOf(1)
NaN == [n |-> 0, d |-> 0]
IsNaN(a) == a.d = 0

RatAdd(a, b) == Rat(a.n * b.d + b.n * a.d, a.d * b.d)
RatSub(a, b) == Rat(a.n * b.d - b.n * a.d, a.d * b.d)
RatMul(a, b) == Rat(a.n * b.n, a.d * b.d)
RatLT(a, b) == a.n * b.d < b.n * a.d
RatLE(a, b) == a.n * b.d <= b.n * a.d

----------------------------------------------------------------------------
(* get_build_fraction (lines 59-66).  The quotient is formed only when     *)
(* start <= year <= end; with end = start it is 0 / 0.0, which raises      *)
(* ZeroDivisionError (the operands are Python numbers: the loop variable   *)
(* of a range and the cells of an object-dtype row).                       *)

Returned(v) == [raised |-> "none", value |-> v]
Raised(e) == [raised |-> e, value |-> NaN]

\* get_build_fraction counting the years of the interval inclusively
get_build_fraction_inclusive(year, start, end) ==
    IF year < start THEN Returned(Zero)
    ELSE IF year > end THEN Returned(One)
    ELSE Returned(Rat(year - start + 1, end - start + 1))

\* get_build_fraction without the test that clamps it to 1.0 past the end
get_build_fraction_unclamped(year, start, end) ==
    IF year < start THEN Returned(Zero)
    ELSE IF end - start = 0 THEN Raised("ZeroDivisionError")
    ELSE Returned(Rat(year - start, end - start))

\* get_build_fraction measuring the years left instead of the years elapsed
get_build_fraction_remaining(year, start, end) ==
    IF year < start THEN Returned(Zero)
    ELSE IF year > end THEN Returned(One)
    ELSE IF end - start = 0 THEN Raised("ZeroDivisionError")
    ELSE Returned(Rat(end - year, end - start))

get_build_fraction(year, start, end) ==
    IF year < start THEN Returned(Zero)
    ELSE IF year > end THEN Returned(One)
    ELSE IF end - start = 0 THEN Raised("ZeroDivisionError")
    ELSE Returned(Rat(year - start, end - start))

----------------------------------------------------------------------------
(* The dense table (lines 39-42).                                          *)

SetMax(S) == CHOOSE m \in S : \A k \in S : k <= m
SetMin(S) == CHOOSE m \in S : \A k \in S : m <= k

\* city_df.reindex(years): the rows of the listed years, in that order; a
\* year the CSV does not have gets NaN, a CSV year not listed is dropped.
reindex(df, ys) ==
    [y \in ys |-> IF y \in DOMAIN df THEN RatOf(df[y]) ELSE NaN]

\* Series.interpolate(method='linear') with pandas' defaults
\* (limit_direction='forward', limit_area=None): the rows count as equally
\* spaced, which the consecutive years are; a NaN between two valid rows is
\* filled linearly, a NaN after the last valid row takes that row's value,
\* and a NaN before the first valid row stays NaN.
interpolate_linear(col) ==
    [y \in DOMAIN col |->
        IF ~IsNaN(col[y]) THEN col[y]
        ELSE LET before == {k \in DOMAIN col : k < y /\ ~IsNaN(col[k])}
                 after == {k \in DOMAIN col : k > y /\ ~IsNaN(col[k])}
             IN  IF before = {} THEN NaN
                 ELSE IF after = {} THEN col[SetMax(before)]
                 ELSE LET t0 == SetMax(before)
                          t1 == SetMin(after)
                      IN  RatAdd(col[t0],
                                 RatMul(RatSub(col[t1], col[t0]),
                                        Rat(y - t0, t1 - t0)))]

----------------------------------------------------------------------------
(* Geometry.  A line is its vertex sequence, vertices on the integer grid; *)
(* the lines of the model are those whose segments have integer length, so *)
(* that LineString.length is exact.  Computed points are rational.         *)

Points == (0 .. GridMax) \X (0 .. GridMax)

SqDist(p, q) == (q[1] - p[1]) * (q[1] - p[1]) + (q[2] - p[2]) * (q[2] - p[2])

RECURSIVE ISqrtFrom(_, _)
ISqrtFrom(n, r) == IF (r + 1) * (r + 1) > n THEN r ELSE ISqrtFrom(n, r + 1)
ISqrt(n) == ISqrtFrom(n, 0)
IsSquare(n) == ISqrt(n) * ISqrt(n) = n

\* Euclidean distance between two vertices of a line of the model
SegLen(p, q) == ISqrt(SqDist(p, q))

Lines ==
    {l \in UNION {[1 .. k -> Points] : k \in 2 .. MaxVerts} :
        \A i \in 1 .. (Len(l) - 1) :
            /\ l[i] # l[i + 1]
            /\ IsSquare(SqDist(l[i], l[i + 1]))}

\* line_geom.length: the sum of the segments' lengths
RECURSIVE LengthFrom(_, _)
LengthFrom(line, i) ==
    IF i >= Len(line) THEN 0
    ELSE SegLen(line[i], line[i + 1]) + LengthFrom(line, i + 1)
length(line) == LengthFrom(line, 1)

\* list(line_geom.coords)
coords(line) == [i \in 1 .. Len(line) |-> <<RatOf(line[i][1]), RatOf(line[i][2])>>]

\* line_geom.interpolate(distance, normalized=False) for 0 <= distance:
\* walk the segments, taking each one's length off the distance, and
\* interpolate inside the segment the distance falls in; a distance at or
\* past the line's length gives the last vertex.
RECURSIVE InterpolateFrom(_, _, _)
InterpolateFrom(line, i, distance) ==
    LET p == line[i]
        q == line[i + 1]
        segLen == RatOf(SegLen(p, q))
    IN  IF RatLE(distance, segLen)
        THEN LET t == Rat(distance.n, distance.d * segLen.n)
             IN  <<RatAdd(RatOf(p[1]), RatMul(t, RatOf(q[1] - p[1]))),
                   RatAdd(RatOf(p[2]), RatMul(t, RatOf(q[2] - p[2])))>>
        ELSE IF i + 1 = Len(line) THEN <<RatOf(q[1]), RatOf(q[2])>>
        ELSE InterpolateFrom(line, i + 1, RatSub(distance, segLen))

\* interpolate along the chord from the first vertex to the last
interpolate_on_chord(line, distance) ==
    InterpolateFrom(<<line[1], line[Len(line)]>>, 1, distance)

interpolate(line, distance) == InterpolateFrom(line, 1, distance)

\* partial_geom without the branch that keeps a fully built line whole
partial_geom_always_cut(frac, row) ==
    LET line_geom == row.geometry
        partial_length == RatMul(frac, RatOf(length(line_geom)))
    IN  IF row.is_linestring
        THEN <<coords(line_geom)[1], interpolate(line_geom, partial_length)>>
        ELSE coords(line_geom)

\* partial_geom passing the fraction itself as the distance
partial_geom_normalized(frac, row) ==
    LET line_geom == row.geometry
    IN  IF row.is_linestring
        THEN IF RatLT(frac, One)
             THEN <<coords(line_geom)[1], interpolate(line_geom, frac)>>
             ELSE coords(line_geom)
        ELSE coords(line_geom)

\* Lines 91-112: the geometry plotted for a row whose fraction is > 0.
partial_geom(frac, row) ==
    LET line_geom == row.geometry
        line_length == length(line_geom)
        partial_length == RatMul(frac, RatOf(line_length))
        partial_line == interpolate(line_geom, partial_length)
    IN  IF row.is_linestring
        THEN LET start_coord == coords(line_geom)[1]
                 partial_coord == partial_line
             IN  IF RatLT(frac, One)
                 THEN <<start_coord, partial_coord>>
                 ELSE coords(line_geom)
        ELSE coords(line_geom)

\* Lines 79-117: one pass of the inner loop, for one row.
plot_row(year, row) ==
    LET call == get_build_fraction(year, row.start_year, row.end_year)
        frac == call.value
    IN  IF call.raised # "none"
        THEN [raised |-> call.raised, frac |-> NaN, drawn |-> FALSE, geom |-> <<>>]
        ELSE IF RatLT(Zero, frac)
        THEN [raised |-> "none", frac |-> frac, drawn |-> TRUE,
              geom |-> partial_geom(frac, row)]
        ELSE [raised |-> "none", frac |-> frac, drawn |-> FALSE, geom |-> <<>>]

----------------------------------------------------------------------------
(* The script, statement by statement.                                     *)

\* lines 41: city_df_full = city_df.reindex(years)
Reindex ==
    /\ pc = "reindex"
    /\ city_df_full' = reindex(city_df, years)
    /\ pc' = "interpolate"
    /\ UNCHANGED <<city_df, roads_gdf, current_year, idx, plotted, frames,
                   raised, args, result>>

\* line 42: the population column, interpolated
Interpolate ==
    /\ pc = "interpolate"
    /\ city_df_full' = interpolate_linear(city_df_full)
    /\ pc' = "next_year"
    /\ UNCHANGED <<city_df, roads_gdf, current_year, idx, plotted, frames,
                   raised, args, result>>

\* lines 72-74 and 148: the next year of the range, or the end of the script
NextYear ==
    /\ pc = "next_year"
    /\ IF current_year < LastYear
       THEN /\ current_year' = current_year + 1
            /\ idx' = 1
            /\ plotted' = <<>>
            /\ pc' = "roads"
       ELSE /\ pc' = "done"
            /\ UNCHANGED <<current_year, idx, plotted>>
    /\ UNCHANGED <<city_df, city_df_full, roads_gdf, frames, raised, args, result>>

\* lines 78-117: the inner loop's pass for row idx.  Nothing catches what
\* get_build_fraction raises: the exception ends the script.
PlotRoad ==
    /\ pc = "roads"
    /\ idx <= Len(roads_gdf)
    /\ LET r == plot_row(current_year, roads_gdf[idx])
       IN  IF r.raised # "none"
           THEN /\ raised' = r.raised
                /\ pc' = "aborted"
                /\ UNCHANGED <<idx, plotted>>
           ELSE /\ plotted' = Append(plotted, r)
                /\ idx' = idx + 1
                /\ UNCHANGED <<raised, pc>>
    /\ UNCHANGED <<city_df, city_df_full, roads_gdf, current_year, frames,
                   args, result>>

\* lines 120-130: the city dot and its label.  int(population) raises
\* ValueError on NaN, and nothing catches it.
PlotCity ==
    /\ pc = "roads"
    /\ idx > Len(roads_gdf)
    /\ LET population == city_df_full[current_year]
       IN  IF IsNaN(population)
           THEN /\ raised' = "ValueError"
                /\ pc' = "aborted"
           ELSE /\ pc' = "save"
                /\ UNCHANGED raised
    /\ UNCHANGED <<city_df, city_df_full, roads_gdf, current_year, idx,
                   plotted, frames, args, result>>

\* lines 143-146: the frame is saved under frame_index
SaveFrame ==
    /\ pc = "save"
    /\ LET frame_index == current_year - FirstYear
       IN  frames' = Append(frames, [frame_index |-> frame_index,
                                     year |-> current_year,
                                     rows |-> plotted,
                                     population |-> city_df_full[current_year]])
    /\ pc' = "next_year"
    /\ UNCHANGED <<city_df, city_df_full, roads_gdf, current_year, idx,
                   plotted, raised, args, result>>

\* a direct call get_build_fraction(year, start, end)
CallBuildFraction ==
    /\ pc = "call"
    /\ result' = get_build_fraction(args.year, args.start, args.end)
    /\ pc' = "returned"
    /\ UNCHANGED <<city_df, city_df_full, roads_gdf, current_year, idx,
                   plotted, frames, raised, args>>

----------------------------------------------------------------------------
(* Inputs.                                                                 *)

\* The CSVs: at least one row (line 31 reads row 0), years unique, any of
\* them possibly outside the loop's range.
AllSeries ==
    UNION {[D -> PopValues] : D \in (SUBSET InputYears) \ {{}}}

\* The CSVs with one row
OneRowSeries == {s \in AllSeries : Cardinality(DOMAIN s) = 1}

Rows(ys, lines, kinds) ==
    [start_year : ys, end_year : ys, geometry : lines, is_linestring : kinds]

\* The geometry every road of the frame loop's runs has: a LineString of
\* two unequal legs at a right angle.
FrameLine == <<<<0, 0>>, <<1, 0>>, <<1, 2>>>>

NoArgs == [year |-> 0, start |-> 0, end |-> 0]

Idle ==
    /\ idx = 1
    /\ plotted = <<>>
    /\ frames = <<>>
    /\ raised = "none"

\* The whole script, from line 41 on.  Before the first pass of the frame
\* loop current_year is unbound; the model holds the year before the first.
Init ==
    /\ city_df \in OneRowSeries
    /\ city_df_full = <<>>
    /\ roads_gdf \in UNION {[1 .. k -> Rows(years, {FrameLine}, {TRUE})] : k \in 1 .. MaxRoads}
    /\ current_year = FirstYear - 1
    /\ Idle
    /\ pc = "reindex"
    /\ args = NoArgs
    /\ result = Returned(NaN)

Next == Reindex \/ Interpolate \/ NextYear \/ PlotRoad \/ PlotCity \/ SaveFrame

Spec == Init /\ [][Next]_vars

\* The table alone: lines 41-42 on every CSV.
InitTable ==
    /\ city_df \in AllSeries
    /\ city_df_full = <<>>
    /\ roads_gdf = <<>>
    /\ current_year = FirstYear - 1
    /\ Idle
    /\ pc = "reindex"
    /\ args = NoArgs
    /\ result = Returned(NaN)

NextTable == Reindex \/ Interpolate

SpecTable == InitTable /\ [][NextTable]_vars

\* One pass of the inner loop, on every row and year.
InitRow ==
    /\ city_df \in {[y \in {FirstYear} |-> 100]}
    /\ city_df_full = <<>>
    /\ roads_gdf \in {<<r>> : r \in Rows(years, Lines, BOOLEAN)}
    /\ current_year \in years
    /\ Idle
    /\ pc = "roads"
    /\ args = NoArgs
    /\ result = Returned(NaN)

NextRow == PlotRoad

SpecRow == InitRow /\ [][NextRow]_vars

\* get_build_fraction alone, on every triple of years.
InitFraction ==
    /\ city_df \in {[y \in {FirstYear} |-> 100]}
    /\ city_df_full = <<>>
    /\ roads_gdf = <<>>
    /\ current_year = FirstYear - 1
    /\ Idle
    /\ pc = "call"
    /\ args \in [year : InputYears, start : InputYears, end : InputYears]
    /\ result = Returned(NaN)

NextFraction == CallBuildFraction

SpecFraction == InitFraction /\ [][NextFraction]_vars

----------------------------------------------------------------------------
(* What the properties below measure with, written independently of the    *)
(* operators above.                                                        *)

\* the arc length of the line up to its vertex k
RECURSIVE PrefixLen(_, _)
PrefixLen(line, k) ==
    IF k <= 1 THEN 0
    ELSE PrefixLen(line, k - 1) + ISqrt(SqDist(line[k - 1], line[k]))

TotalLength(line) == PrefixLen(line, Len(line))

\* pt is the point of the line at arc length target from its first vertex
AtArcLength(line, target, pt) ==
    \E k \in 1 .. (Len(line) - 1) :
        LET a == PrefixLen(line, k)
            segLen == PrefixLen(line, k + 1) - a
            off == RatSub(target, RatOf(a))
        IN  /\ RatLE(RatOf(a), target)
            /\ RatLE(target, RatOf(a + segLen))
            /\ pt[1] = RatAdd(RatOf(line[k][1]),
                              Rat(off.n * (line[k + 1][1] - line[k][1]), off.d * segLen))
            /\ pt[2] = RatAdd(RatOf(line[k][2]),
                              Rat(off.n * (line[k + 1][2] - line[k][2]), off.d * segLen))

\* the square of the distance between two rational points
RatSqDist(a, b) ==
    LET dx == RatSub(b[1], a[1])
        dy == RatSub(b[2], a[2])
    IN  RatAdd(RatMul(dx, dx), RatMul(dy, dy))

\* the line runs straight, in one direction, from its first vertex to the
\* point at arc length target
StraightUpTo(line, target) ==
    LET k == SetMin({j \in 1 .. (Len(line) - 1) :
                        RatLE(target, RatOf(PrefixLen(line, j + 1)))})
        dir(i) == <<line[i + 1][1] - line[i][1], line[i + 1][2] - line[i][2]>>
    IN  \A i \in 2 .. k :
            /\ dir(1)[1] * dir(i)[2] - dir(1)[2] * dir(i)[1] = 0
            /\ dir(1)[1] * dir(i)[1] + dir(1)[2] * dir(i)[2] > 0

\* the geometry is the line, vertex for vertex
SameVertices(geom, line) ==
    /\ Len(geom) = Len(line)
    /\ \A i \in 1 .. Len(line) :
        /\ geom[i][1] = RatOf(line[i][1])
        /\ geom[i][2] = RatOf(line[i][2])

\* SpecFraction: the call has returned or raised
Called == pc = "returned"

\* SpecRow: the pass for the one row has run to its end
RowPlotted == pc = "roads" /\ idx = 2 /\ Len(plotted) = 1
TheRow == roads_gdf[1]
ThePass == plotted[1]
PartlyBuilt == RatLT(Zero, ThePass.frac) /\ RatLT(ThePass.frac, One)

\* SpecTable: the table is built
TableBuilt == pc = "next_year"
KnownYears == DOMAIN city_df
Adjacent(t0, t1) ==
    /\ t0 \in KnownYears
    /\ t1 \in KnownYears
    /\ t0 < t1
    /\ \A k \in KnownYears : ~(t0 < k /\ k < t1)
Linear(t0, t1, y) ==
    Rat(city_df[t0] * (t1 - t0) + (city_df[t1] - city_df[t0]) * (y - t0), t1 - t0)

----------------------------------------------------------------------------
(* The properties.                                                         *)

\* C1: for years t, s, e with s < e, get_build_fraction(t, s, e) returns
\* 0.0 when t < s, 1.0 when t > e and (t - s) / (e - s) in between, so 0.0
\* at t = s and 1.0 at t = e.
C1_PiecewiseLinear ==
    (Called /\ args.start < args.end) =>
        /\ result.raised = "none"
        /\ args.year < args.start => result.value = Zero
        /\ args.year > args.end => result.value = One
        /\ (args.start <= args.year /\ args.year <= args.end) =>
              result.value.n * (args.end - args.start)
                  = (args.year - args.start) * result.value.d
        /\ args.year = args.start => result.value = Zero
        /\ args.year = args.end => result.value = One

\* C1, its case: a year strictly inside the interval, a fraction strictly
\* between 0 and 1
C1_Witness ==
    /\ Called
    /\ args.start < args.year
    /\ args.year < args.end
    /\ result = Returned(Rat(1, 2))

\* C2: with start = end, get_build_fraction returns 1.0 for every year at
\* or after start, and does not divide by zero.
C2_EqualYearsGiveOne ==
    (Called /\ args.start = args.end /\ args.year >= args.start) =>
        result = Returned(One)

\* C3: whenever get_build_fraction returns a value, also for start > end,
\* the value lies in [0, 1]; and for start > end it returns a value for
\* every year.
C3_FractionInUnitInterval ==
    Called =>
        /\ result.raised = "none" =>
              /\ ~IsNaN(result.value)
              /\ RatLE(Zero, result.value)
              /\ RatLE(result.value, One)
        /\ args.start > args.end => result.raised = "none"

\* C3, its case: a reversed interval, asked about a year between its ends
C3_Witness ==
    /\ Called
    /\ args.start > args.end
    /\ args.end < args.year
    /\ args.year < args.start
    /\ result.raised = "none"

\* C4: for every year of the table between two adjacent known sample years
\* t0 < t1, the table holds v0 + (v1 - v0) * (year - t0) / (t1 - t0), and at
\* a known sample year it holds that sample's value.
C4_LinearBetweenSamples ==
    TableBuilt =>
        \A y \in years :
            /\ y \in KnownYears => city_df_full[y] = RatOf(city_df[y])
            /\ \A t0, t1 \in KnownYears :
                  (Adjacent(t0, t1) /\ t0 < y /\ y < t1) =>
                      city_df_full[y] = Linear(t0, t1, y)

\* C4 for the samples the table keeps: the same, with t0 and t1 both among
\* the table's years.
C4_LinearBetweenKeptSamples ==
    TableBuilt =>
        \A y \in years :
            /\ y \in KnownYears => city_df_full[y] = RatOf(city_df[y])
            /\ \A t0, t1 \in KnownYears \cap years :
                  (Adjacent(t0, t1) /\ t0 < y /\ y < t1) =>
                      city_df_full[y] = Linear(t0, t1, y)

\* C5: the table holds a value for every year of the range, and the years
\* before the first known sample and after the last one are treated alike:
\* both clamped to the nearest known value, or both left out.  Stated for
\* the CSVs with a row in the range, which have a nearest known value.
C5_OnePolicyBothSides ==
    LET kept == KnownYears \cap years
        before == {y \in years : \A k \in kept : y < k}
        after == {y \in years : \A k \in kept : y > k}
        clamped(S, k) == \A y \in S : city_df_full[y] = RatOf(city_df[k])
        undefined(S) == \A y \in S : IsNaN(city_df_full[y])
    IN  (TableBuilt /\ kept # {}) =>
            /\ \A y \in years : ~IsNaN(city_df_full[y])
            /\ \/ clamped(before, SetMin(kept)) /\ clamped(after, SetMax(kept))
               \/ undefined(before) /\ undefined(after)

\* C6: a row whose fraction is 0 (the year before the start year, or at it)
\* has nothing drawn; a row whose fraction is 1 or more has the whole line
\* drawn, vertex for vertex.
C6_NothingOrWhole ==
    RowPlotted =>
        /\ ThePass.frac = Zero => (~ThePass.drawn /\ ThePass.geom = <<>>)
        /\ current_year < TheRow.start_year => ThePass.frac = Zero
        /\ (current_year = TheRow.start_year /\ TheRow.start_year < TheRow.end_year)
              => ThePass.frac = Zero
        /\ RatLE(One, ThePass.frac) =>
              (ThePass.drawn /\ SameVertices(ThePass.geom, TheRow.geometry))

\* C6, its case: a LineString of three vertices in the year its building
\* ends
C6_Witness ==
    /\ RowPlotted
    /\ TheRow.is_linestring
    /\ Len(TheRow.geometry) = 3
    /\ TheRow.start_year < TheRow.end_year
    /\ current_year = TheRow.end_year
    /\ ThePass.frac = One
    /\ ThePass.drawn

\* C7: for a LineString and a fraction f with 0 < f < 1 the geometry drawn
\* has two points: the first vertex, and the point at arc length
\* f * length from it along the line.
C7_TwoPointsToArcLength ==
    (RowPlotted /\ TheRow.is_linestring /\ PartlyBuilt) =>
        /\ ThePass.drawn
        /\ Len(ThePass.geom) = 2
        /\ ThePass.geom[1] = <<RatOf(TheRow.geometry[1][1]), RatOf(TheRow.geometry[1][2])>>
        /\ AtArcLength(TheRow.geometry,
                       RatMul(ThePass.frac, RatOf(TotalLength(TheRow.geometry))),
                       ThePass.geom[2])

\* C7, its case: the line (0,0), (1,0), (1,1) half built is drawn as
\* (0,0), (1,0)
C7_Witness ==
    /\ RowPlotted
    /\ TheRow.is_linestring
    /\ TheRow.geometry = <<<<0, 0>>, <<1, 0>>, <<1, 1>>>>
    /\ ThePass.frac = Rat(1, 2)
    /\ ThePass.geom = <<<<Zero, Zero>>, <<One, Zero>>>>

\* C8: for every LineString and every fraction f with 0 < f < 1, the length
\* of the two-point line drawn is f * length of the line.
C8_PartialLength ==
    (RowPlotted /\ TheRow.is_linestring /\ PartlyBuilt) =>
        LET target == RatMul(ThePass.frac, RatOf(TotalLength(TheRow.geometry)))
        IN  RatSqDist(ThePass.geom[1], ThePass.geom[2]) = RatMul(target, target)

\* C8 as amended: the same for every LineString that runs straight from its
\* first vertex to the computed point; for any LineString the two-point line
\* is no longer than f * length.
C8_PartialLengthStraight ==
    (RowPlotted /\ TheRow.is_linestring /\ PartlyBuilt) =>
        LET target == RatMul(ThePass.frac, RatOf(TotalLength(TheRow.geometry)))
            drawnSq == RatSqDist(ThePass.geom[1], ThePass.geom[2])
        IN  /\ StraightUpTo(TheRow.geometry, target) => drawnSq = RatMul(target, target)
            /\ RatLE(drawnSq, RatMul(target, target))

\* C8 as amended, its case: a line with a bend, cut before the bend
C8_Witness ==
    /\ RowPlotted
    /\ TheRow.is_linestring
    /\ PartlyBuilt
    /\ TheRow.geometry = <<<<0, 0>>, <<2, 0>>, <<2, 2>>>>
    /\ ThePass.geom = <<<<Zero, Zero>>, <<RatOf(2), Zero>>>>

\* C9: a failure in one row or one year does not end the run: when a
\* failure is raised, no row of the frame and no year is left unprocessed
\* because of it.
C9_FailureLeavesNothingUndone ==
    pc = "aborted" =>
        /\ idx >= Len(roads_gdf)
        /\ current_year = LastYear

\* C10: the frames are saved one per year, in increasing year order, under
\* the index year - 1850, and from frame to frame every row's fraction does
\* not decrease: a row drawn stays drawn, a row drawn whole stays whole.
C10_RowsOnlyGrow ==
    /\ \A i \in 1 .. Len(frames) :
        /\ frames[i].year = FirstYear + i - 1
        /\ frames[i].frame_index = frames[i].year - 1850
        /\ Len(frames[i].rows) = Len(roads_gdf)
    /\ \A i, j \in 1 .. Len(frames) :
        i < j =>
            \A r \in 1 .. Len(roads_gdf) :
                LET a == frames[i].rows[r]
                    b == frames[j].rows[r]
                IN  /\ RatLE(a.frac, b.frac)
                    /\ a.drawn => b.drawn
                    /\ SameVertices(a.geom, roads_gdf[r].geometry)
                          => SameVertices(b.geom, roads_gdf[r].geometry)
    /\ \A i \in 1 .. Len(frames) :
        \A r \in 1 .. Len(plotted) :
            (pc \in {"roads", "save"} /\ frames[i].year < current_year) =>
                /\ RatLE(frames[i].rows[r].frac, plotted[r].frac)
                /\ frames[i].rows[r].drawn => plotted[r].drawn

\* C10, its case: a row not drawn in the first frame, half drawn in the
\* second and drawn whole in the third
C10_Witness ==
    /\ Len(frames) = 3
    /\ frames[1].rows[1].frac = Zero
    /\ ~frames[1].rows[1].drawn
    /\ frames[2].rows[1].frac = Rat(1, 2)
    /\ Len(frames[2].rows[1].geom) = 2
    /\ frames[3].rows[1].frac = One
    /\ SameVertices(frames[3].rows[1].geom, roads_gdf[1].geometry)

====
